---- MODULE Spec2Model ----
(***************************************************************************)
(* Goodix GT9xx touchscreen driver (drivers/input/touchscreen/goodix.c).   *)
(*                                                                         *)
(* Two specifications share the variables below:                           *)
(*   Spec     the power / lifecycle / ESD state machine of one device      *)
(*            instance after a successful probe (FairSpec adds the         *)
(*            firmware loader's fairness);                                 *)
(*   SpecDec  the configuration reader and the interrupt-driven touch      *)
(*            decoder, over bounded device register contents.              *)
(*                                                                         *)
(* Driver functions are operators over a "world" record w:                 *)
(*   w.ts     the fields of struct goodix_ts_data                          *)
(*   w.hw     the IRQ line registration and the state of the INT line      *)
(*   w.wk     whether esd_work is queued (delayed work pending)            *)
(*   w.steps  the calls made so far by the running handler                 *)
(* An operator that can fail returns [w |-> world, err |-> code].          *)
(***************************************************************************)
EXTENDS Integers, Sequences, FiniteSets, TLC

VARIABLES
    ts,         \* struct goodix_ts_data (src 35-60)
    hw,         \* [irq_held, irq_armed, int_dir]: IRQ registration, INT line
    esd_work,   \* [pending, pc]: ts->esd_work; pc in {"idle","wait","recover"}
    rpm,        \* runtime-PM facade of the device: [enabled, status, usage, error]
    pc,         \* [cb, sys, open, remove]: positions of the blocking callers
    platform,   \* properties, DMI match and on-chip config registers
    last,       \* history: the last handler that returned
    resumed_idle, \* history: system resume saw open_count == 0 after a sleep
    sink,       \* history: what the last interrupt did (events, ack, return)
    call,       \* history: the last application of a configuration function
    trace,      \* history: the calls made by the last handler, in order
    mutex,      \* ts->mutex: the thread that holds it, 0 when free
    thr         \* the PM callbacks running step by step: thread -> [fn, pc, f, err]

vars == <<ts, hw, esd_work, rpm, pc, platform, last, resumed_idle, sink,
          call, trace, mutex, thr>>

(* the variables only the fine-grained specifications change *)
aux == <<call, trace, mutex, thr>>

---------------------------------------------------------------------------
(* Bounds of the model *)

MaxEsdTimeout == 1
MaxOpen == 1

---------------------------------------------------------------------------
(* Program constants *)

GOODIX_MAX_HEIGHT == 4096
GOODIX_MAX_WIDTH == 4096
GOODIX_INT_TRIGGER == 1
GOODIX_CONTACT_SIZE == 8
GOODIX_MAX_CONTACTS == 10
GOODIX_CONFIG_MAX_LENGTH == 240
GOODIX_REG_COMMAND == 32832
GOODIX_CMD_SCREEN_OFF == 5
GOODIX_CMD_ESD_ENABLED == 170
GOODIX_REG_ESD_CHECK == 32833
GOODIX_READ_COOR_ADDR == 33102
GOODIX_REG_CONFIG_DATA == 32839
RESOLUTION_LOC == 1
MAX_CONTACTS_LOC == 5
TRIGGER_LOC == 6

IRQF_TRIGGER_RISING == 1
IRQF_TRIGGER_FALLING == 2
IRQF_TRIGGER_HIGH == 4
IRQF_TRIGGER_LOW == 8
IRQF_ONESHOT == 8192

goodix_irq_flags ==
    <<IRQF_TRIGGER_RISING, IRQF_TRIGGER_FALLING, IRQF_TRIGGER_LOW, IRQF_TRIGGER_HIGH>>

(* Error codes (0 is OK) *)
OK == "0"
EIO == "-EIO"
EAGAIN == "-EAGAIN"
EPROTO == "-EPROTO"
EINVAL == "-EINVAL"
EBUSY == "-EBUSY"
EACCES == "-EACCES"
ENOMEM == "-ENOMEM"

---------------------------------------------------------------------------
(* Bus, IRQ and GPIO primitives *)

Step(w, s) == [w EXCEPT !.steps = Append(@, s)]

Ret(w, e) == [w |-> w, err |-> e]

(* goodix_i2c_write_u8 / goodix_i2c_write: one message; ok is the adapter's answer *)
goodix_i2c_write(w, reg, val, ok) ==
    IF ok THEN Ret(Step(w, <<"write", reg, val>>), OK)
          ELSE Ret(Step(w, <<"write_failed", reg, val>>), EIO)

(* devm_free_irq: freeing a line that is not held warns and changes nothing *)
goodix_free_irq(w) ==
    IF w.hw.irq_held
    THEN Step([w EXCEPT !.hw.irq_held = FALSE, !.hw.irq_armed = 0], <<"free_irq">>)
    ELSE Step(w, <<"free_irq_not_held">>)

(* devm_request_threaded_irq with ts->irq_flags: -EBUSY when the line is
   already held, -EINVAL for a threaded handler without IRQF_ONESHOT,
   otherwise the host's answer ok *)
goodix_request_irq(w, ok) ==
    IF w.hw.irq_held THEN Ret(Step(w, <<"request_irq_busy">>), EBUSY)
    ELSE IF w.ts.irq_flags = 0 THEN Ret(Step(w, <<"request_irq_failed">>), EINVAL)
    ELSE IF ~ok THEN Ret(Step(w, <<"request_irq_failed">>), ENOMEM)
    ELSE Ret(Step([w EXCEPT !.hw.irq_held = TRUE, !.hw.irq_armed = w.ts.irq_flags],
                  <<"request_irq", w.ts.irq_flags>>), OK)

(* the reset line's level is kept in the steps only *)
set_reset_output_val(w, val, ok) ==
    IF ok THEN Ret(Step(w, <<"rst_out", val>>), OK)
          ELSE Ret(Step(w, <<"rst_out_failed", val>>), EIO)

set_int_output_val(w, val, ok) ==
    IF ok THEN Ret(Step([w EXCEPT !.hw.int_dir = IF val = 1 THEN "out_high" ELSE "out_low"],
                        <<"int_out", val>>), OK)
          ELSE Ret(Step(w, <<"int_out_failed", val>>), EIO)

set_int_input(w, ok) ==
    IF ok THEN Ret(Step([w EXCEPT !.hw.int_dir = "input"], <<"int_input">>), OK)
          ELSE Ret(Step(w, <<"int_input_failed">>), EIO)

(* fail_at: 0 none, 1 the drive-low, 2 the switch to input *)
goodix_int_sync(w, fail_at) ==
    LET a == set_int_output_val(w, 0, fail_at # 1) IN
    IF a.err # OK THEN a
    ELSE set_int_input(a.w, fail_at # 2)

(* goodix_reset that goes on after a failed INT address select *)
reset_ignoring_select_failure(w, fail_at) ==
    LET a == set_reset_output_val(w, 0, fail_at # 1) IN
    IF a.err # OK THEN a ELSE
    LET b == set_int_output_val(a.w, IF w.ts.addr = 20 THEN 1 ELSE 0, fail_at # 2) IN
    LET c == set_reset_output_val(b.w, 1, fail_at # 3) IN
    IF c.err # OK THEN c ELSE
    goodix_int_sync(c.w, IF fail_at >= 4 THEN fail_at - 3 ELSE 0)

(* fail_at: 0 none, 1 rst low, 2 INT address select, 3 rst high, 4..5 int_sync *)
goodix_reset(w, fail_at) ==
    LET a == set_reset_output_val(w, 0, fail_at # 1) IN
    IF a.err # OK THEN a ELSE
    LET b == set_int_output_val(a.w, IF w.ts.addr = 20 THEN 1 ELSE 0, fail_at # 2) IN
    IF b.err # OK THEN b ELSE
    LET c == set_reset_output_val(b.w, 1, fail_at # 3) IN
    IF c.err # OK THEN c ELSE
    goodix_int_sync(c.w, IF fail_at >= 4 THEN fail_at - 3 ELSE 0)

---------------------------------------------------------------------------
(* ESD watchdog enable / disable *)

(* cancel_delayed_work_sync: the pending tick is dequeued; the wait for a
   running tick is the guard EsdCancelReturns of the calling action *)
goodix_disable_esd(w) ==
    IF w.ts.esd_timeout = 0 THEN w
    ELSE Step([w EXCEPT !.wk = FALSE], <<"cancel_esd">>)

goodix_enable_esd(w, ok) ==
    IF w.ts.esd_timeout = 0 THEN Ret(w, OK)
    ELSE LET a == goodix_i2c_write(w, GOODIX_REG_ESD_CHECK, GOODIX_CMD_ESD_ENABLED, ok) IN
         IF a.err # OK THEN a
         ELSE Ret(Step([a.w EXCEPT !.wk = TRUE], <<"schedule_esd", w.ts.esd_timeout>>), OK)

---------------------------------------------------------------------------
(* Power transitions.  f names which fallible calls fail. *)

(* TRUE: that call fails.  Choices that differ only in a call the path
   does not reach are the same run and are listed once. *)
SleepFailures ==
    { f \in [int_low : BOOLEAN, screen_off : BOOLEAN, int_input : BOOLEAN, req_irq : BOOLEAN] :
        /\ f.int_low => ~f.screen_off
        /\ f.int_input => f.screen_off
        /\ f.req_irq => (f.int_low \/ f.screen_off) }

(* mutex_unlock(&ts->mutex); return error *)
out_error(r) == Ret(Step(r.w, <<"mutex_unlock">>), r.err)

NoSleepFailure == [int_low |-> FALSE, screen_off |-> FALSE, int_input |-> FALSE, req_irq |-> FALSE]

(* goodix_sleep_locked that sends SCREEN_OFF before it drives INT low *)
sleep_locked_screen_off_first(w, f) ==
    LET a == goodix_free_irq(goodix_disable_esd(w))
        c == goodix_i2c_write(a, GOODIX_REG_COMMAND, GOODIX_CMD_SCREEN_OFF, ~f.screen_off)
    IN
    IF c.err # OK
    THEN Ret(goodix_request_irq(set_int_input(c.w, ~f.int_input).w, ~f.req_irq).w, EAGAIN)
    ELSE
    LET b == set_int_output_val(c.w, 0, ~f.int_low) IN
    IF b.err # OK
    THEN Ret(goodix_request_irq(b.w, ~f.req_irq).w, b.err)
    ELSE Ret(Step([b.w EXCEPT !.ts.suspended = TRUE], <<"suspended", TRUE>>), OK)

(* goodix_sleep between the test of suspended and the unlock *)
goodix_sleep_locked(w, f) ==
    LET a == goodix_free_irq(goodix_disable_esd(w))
        b == set_int_output_val(a, 0, ~f.int_low)
    IN
    IF b.err # OK
    THEN Ret(goodix_request_irq(b.w, ~f.req_irq).w, b.err)
    ELSE
    LET c == goodix_i2c_write(b.w, GOODIX_REG_COMMAND, GOODIX_CMD_SCREEN_OFF, ~f.screen_off) IN
    IF c.err # OK
    THEN Ret(goodix_request_irq(set_int_input(c.w, ~f.int_input).w, ~f.req_irq).w, EAGAIN)
    ELSE Ret(Step([c.w EXCEPT !.ts.suspended = TRUE], <<"suspended", TRUE>>), OK)

goodix_sleep(w, f) ==
    IF ~w.ts.gpios THEN Ret(w, OK)
    ELSE
    LET l == Step(w, <<"mutex_lock">>) IN
    IF l.ts.suspended THEN Ret(Step(l, <<"mutex_unlock">>), OK)
    ELSE out_error(goodix_sleep_locked(l, f))

(* goodix_wakeup returns at the first failure: at most one call fails *)
WakeFailures ==
    { f \in [int_high : BOOLEAN, int_sync : 0..2, req_irq : BOOLEAN, esd_write : BOOLEAN] :
        Cardinality({k \in {"int_high", "req_irq", "esd_write"} : f[k]})
            + (IF f.int_sync # 0 THEN 1 ELSE 0) <= 1 }

NoWakeFailure == [int_high |-> FALSE, int_sync |-> 0, req_irq |-> FALSE, esd_write |-> FALSE]

(* goodix_wakeup_locked that re-requests the IRQ before the INT sync *)
wakeup_locked_irq_before_sync(w, f) ==
    LET a == set_int_output_val(w, 1, ~f.int_high) IN
    IF a.err # OK THEN a ELSE
    LET c == goodix_request_irq(a.w, ~f.req_irq) IN
    IF c.err # OK THEN c ELSE
    LET b == goodix_int_sync(c.w, f.int_sync) IN
    IF b.err # OK THEN b ELSE
    LET e == goodix_enable_esd(b.w, ~f.esd_write) IN
    IF e.err # OK THEN e ELSE
    Ret(Step([e.w EXCEPT !.ts.suspended = FALSE], <<"suspended", FALSE>>), OK)

(* goodix_wakeup between the test of suspended and the unlock *)
goodix_wakeup_locked(w, f) ==
    LET a == set_int_output_val(w, 1, ~f.int_high) IN
    IF a.err # OK THEN a ELSE
    LET b == goodix_int_sync(a.w, f.int_sync) IN
    IF b.err # OK THEN b ELSE
    LET c == goodix_request_irq(b.w, ~f.req_irq) IN
    IF c.err # OK THEN c ELSE
    LET e == goodix_enable_esd(c.w, ~f.esd_write) IN
    IF e.err # OK THEN e ELSE
    Ret(Step([e.w EXCEPT !.ts.suspended = FALSE], <<"suspended", FALSE>>), OK)

goodix_wakeup(w, f) ==
    IF ~w.ts.gpios THEN Ret(w, OK)
    ELSE
    LET l == Step(w, <<"mutex_lock">>) IN
    IF ~l.ts.suspended THEN Ret(Step(l, <<"mutex_unlock">>), OK)
    ELSE out_error(goodix_wakeup_locked(l, f))

---------------------------------------------------------------------------
(* Runtime-PM facade (pm_runtime_* as called by the driver; the callbacks
   are goodix_pm_ops: runtime_suspend = goodix_sleep, runtime_resume =
   goodix_wakeup) *)

pm_runtime_active(w) == w.rpm.status = "active" \/ ~w.rpm.enabled

(* pm_runtime_get_sync: take a usage reference and resume synchronously *)
pm_runtime_get_sync(w, f) ==
    LET u == [w EXCEPT !.rpm.usage = @ + 1] IN
    IF u.rpm.error THEN Ret(u, EINVAL)
    ELSE IF ~u.rpm.enabled THEN Ret(u, EACCES)
    ELSE IF u.rpm.status = "active" THEN Ret(u, OK)
    ELSE LET a == goodix_wakeup(Step(u, <<"runtime_resume">>), f) IN
         IF a.err = OK THEN Ret([a.w EXCEPT !.rpm.status = "active"], OK)
         ELSE Ret([a.w EXCEPT !.rpm.status = "suspended", !.rpm.error = TRUE], a.err)

pm_runtime_put_noidle(w) ==
    [w EXCEPT !.rpm.usage = IF @ > 0 THEN @ - 1 ELSE 0]

(* pm_runtime_mark_last_busy; pm_runtime_put_autosuspend: drops the reference;
   the autosuspend itself is the timer's RuntimeSuspendStart *)
pm_runtime_put_autosuspend(w) ==
    LET u == [w EXCEPT !.rpm.usage = IF @ > 0 THEN @ - 1 ELSE 0] IN
    IF u.rpm.usage > 0 THEN Ret(u, OK)
    ELSE IF u.rpm.error THEN Ret(u, EINVAL)
    ELSE IF ~u.rpm.enabled THEN Ret(u, EACCES)
    ELSE Ret(u, OK)

(* goodix_set_power_state that keeps the usage reference of a failed
   pm_runtime_get_sync *)
set_power_state_without_put_noidle(w, on, f) ==
    IF on THEN pm_runtime_get_sync(w, f) ELSE pm_runtime_put_autosuspend(w)

goodix_set_power_state(w, on, f) ==
    IF on
    THEN LET a == pm_runtime_get_sync(w, f) IN
         IF a.err # OK THEN Ret(pm_runtime_put_noidle(a.w), a.err) ELSE a
    ELSE pm_runtime_put_autosuspend(w)

---------------------------------------------------------------------------
(* Config manager.  A blob / register image is a sequence of bytes; C index
   i is TLA+ index i + 1. *)

U8(n) == n % 256

get_unaligned_le16(buf, i) == buf[i + 1] + 256 * buf[i + 2]

(* the u8 accumulator of the checksum loop over data[lo..hi]; addition
   modulo 256 is associative, so the range is summed by halves *)
RECURSIVE SumRange(_, _, _)
SumRange(data, lo, hi) ==
    IF lo > hi THEN 0
    ELSE IF lo = hi THEN U8(data[lo])
    ELSE U8(SumRange(data, lo, (lo + hi) \div 2) + SumRange(data, (lo + hi) \div 2 + 1, hi))

SumBytes(data, n) == SumRange(data, 1, n)

(* goodix_check_cfg without the Config_Fresh test *)
check_cfg_without_fresh(cfg) ==
    IF Len(cfg) > GOODIX_CONFIG_MAX_LENGTH THEN EINVAL
    ELSE LET raw_cfg_len == Len(cfg) - 2
             check_sum == U8((255 - SumBytes(cfg, raw_cfg_len)) + 1)
         IN IF check_sum # cfg[raw_cfg_len + 1] THEN EINVAL
            ELSE OK

goodix_check_cfg(cfg) ==
    IF Len(cfg) > GOODIX_CONFIG_MAX_LENGTH THEN EINVAL
    ELSE LET raw_cfg_len == Len(cfg) - 2
             check_sum == U8((255 - SumBytes(cfg, raw_cfg_len)) + 1)
         IN IF check_sum # cfg[raw_cfg_len + 1] THEN EINVAL
            ELSE IF cfg[raw_cfg_len + 2] # 1 THEN EINVAL
            ELSE OK

(* goodix_send_cfg that writes the blob whatever goodix_check_cfg answers *)
send_cfg_without_check(w, cfg, ok) ==
    goodix_i2c_write(w, GOODIX_REG_CONFIG_DATA, cfg, ok)

goodix_send_cfg(w, cfg, ok) ==
    LET error == goodix_check_cfg(cfg) IN
    IF error # OK THEN Ret(Step(w, <<"check_cfg_failed">>), error)
    ELSE goodix_i2c_write(w, GOODIX_REG_CONFIG_DATA, cfg, ok)

(* goodix_read_config on the struct t: read_ok is the outcome of the read of
   cfg_len bytes from 0x8047, config the bytes read, dmi the quirk match *)
ConfigDefaults(t) ==
    LET a == [t EXCEPT !.abs_x_max = GOODIX_MAX_WIDTH, !.abs_y_max = GOODIX_MAX_HEIGHT]
        b == IF a.swapped_x_y
             THEN [a EXCEPT !.abs_x_max = a.abs_y_max, !.abs_y_max = a.abs_x_max]
             ELSE a
    IN [b EXCEPT !.int_trigger_type = GOODIX_INT_TRIGGER,
                 !.max_touch_num = GOODIX_MAX_CONTACTS]

(* goodix_read_config that tests only the resolution for zero *)
read_config_without_contact_test(t, read_ok, config, dmi) ==
    IF ~read_ok THEN ConfigDefaults(t)
    ELSE
    LET a == [t EXCEPT !.abs_x_max = get_unaligned_le16(config, RESOLUTION_LOC),
                       !.abs_y_max = get_unaligned_le16(config, RESOLUTION_LOC + 2)]
        b == IF a.swapped_x_y
             THEN [a EXCEPT !.abs_x_max = a.abs_y_max, !.abs_y_max = a.abs_x_max]
             ELSE a
        c == [b EXCEPT !.int_trigger_type = config[TRIGGER_LOC + 1] % 4,
                       !.max_touch_num = config[MAX_CONTACTS_LOC + 1] % 16]
        d == IF c.abs_x_max = 0 \/ c.abs_y_max = 0
             THEN ConfigDefaults(c) ELSE c
    IN IF dmi THEN [d EXCEPT !.inverted_x = TRUE, !.inverted_y = TRUE] ELSE d

goodix_read_config(t, read_ok, config, dmi) ==
    IF ~read_ok THEN ConfigDefaults(t)
    ELSE
    LET a == [t EXCEPT !.abs_x_max = get_unaligned_le16(config, RESOLUTION_LOC),
                       !.abs_y_max = get_unaligned_le16(config, RESOLUTION_LOC + 2)]
        b == IF a.swapped_x_y
             THEN [a EXCEPT !.abs_x_max = a.abs_y_max, !.abs_y_max = a.abs_x_max]
             ELSE a
        c == [b EXCEPT !.int_trigger_type = config[TRIGGER_LOC + 1] % 4,
                       !.max_touch_num = config[MAX_CONTACTS_LOC + 1] % 16]
        d == IF c.abs_x_max = 0 \/ c.abs_y_max = 0 \/ c.max_touch_num = 0
             THEN ConfigDefaults(c) ELSE c
    IN IF dmi THEN [d EXCEPT !.inverted_x = TRUE, !.inverted_y = TRUE] ELSE d

(* goodix_request_input_dev: ok is the outcome of allocation + registration *)
goodix_request_input_dev(w, ok) ==
    IF ok THEN Ret(Step([w EXCEPT !.ts.input_dev = TRUE], <<"input_register">>), OK)
          ELSE Ret(Step(w, <<"input_register_failed">>), ENOMEM)

ConfigureFailures ==
    { f \in [cfg_read : BOOLEAN, input : BOOLEAN, req_irq : BOOLEAN] : ~(f.input /\ f.req_irq) }

NoConfigureFailure == [cfg_read |-> FALSE, input |-> FALSE, req_irq |-> FALSE]

goodix_configure_dev(w, p, f) ==
    LET t0 == [w.ts EXCEPT !.swapped_x_y = p.swapped_x_y,
                           !.inverted_x = p.inverted_x,
                           !.inverted_y = p.inverted_y]
        a == [w EXCEPT !.ts = goodix_read_config(t0, ~f.cfg_read, p.dev_cfg, p.dmi)]
        b == goodix_request_input_dev(a, ~f.input)
    IN
    IF b.err # OK THEN b
    ELSE LET c == [b.w EXCEPT !.ts.irq_flags =
                        goodix_irq_flags[b.w.ts.int_trigger_type + 1] + IRQF_ONESHOT]
         IN goodix_request_irq(c, ~f.req_irq)

---------------------------------------------------------------------------
(* Firmware continuation.  in.fw is the blob delivered (<<>> when the
   firmware file was not found).  The result names the label reached. *)

CbInputs(blobs) ==
    { in \in [fw : blobs \cup {<<>>}, cfg_write : BOOLEAN, conf : ConfigureFailures,
              esd_write : BOOLEAN, set_active : BOOLEAN] :
        /\ in.cfg_write => (in.fw # <<>> /\ in.conf = NoConfigureFailure)
        /\ (in.esd_write \/ in.set_active) =>
               (~in.cfg_write /\ ~in.conf.input /\ ~in.conf.req_irq) }

AtLabel(w, label) == [w |-> w, pc |-> label]

(* goodix_config_cb with `return` in place of `goto err_release_cfg` on the
   failure exits: the barrier is left unsignalled *)
config_cb_returns_on_error(w, p, in) ==
    LET a == IF in.fw # <<>> THEN goodix_send_cfg(w, in.fw, ~in.cfg_write) ELSE Ret(w, OK) IN
    IF a.err # OK THEN AtLabel(a.w, "done") ELSE
    LET b == goodix_configure_dev(a.w, p, in.conf) IN
    IF b.err # OK THEN AtLabel(b.w, "done") ELSE
    LET c == goodix_enable_esd(b.w, ~in.esd_write).w IN
    IF in.set_active
    THEN AtLabel(Step(c, <<"pm_set_active_failed">>), "done")
    ELSE AtLabel(Step([c EXCEPT !.rpm.status = "active", !.rpm.enabled = TRUE],
                      <<"pm_runtime_enable">>), "err_release_cfg")

goodix_config_cb(w, p, in) ==
    LET a == IF in.fw # <<>> THEN goodix_send_cfg(w, in.fw, ~in.cfg_write) ELSE Ret(w, OK) IN
    IF a.err # OK THEN AtLabel(a.w, "err_release_cfg") ELSE
    LET b == goodix_configure_dev(a.w, p, in.conf) IN
    IF b.err # OK THEN AtLabel(b.w, "err_release_cfg") ELSE
    LET c == goodix_enable_esd(b.w, ~in.esd_write).w IN
    IF in.set_active
    THEN AtLabel(Step(c, <<"pm_set_active_failed">>), "err_release_cfg")
    ELSE AtLabel(Step([c EXCEPT !.rpm.status = "active", !.rpm.enabled = TRUE],
                      <<"pm_runtime_enable">>), "err_release_cfg")

---------------------------------------------------------------------------
(* ESD tick.  reads is what the device answers to the successive reads of
   2 bytes at 0x8040: [err, data]. *)

EsdReadings ==
    { [err |-> EIO, data |-> <<0, 0>>],
      [err |-> OK, data |-> <<GOODIX_CMD_ESD_ENABLED, GOODIX_CMD_ESD_ENABLED>>],
      [err |-> OK, data |-> <<0, GOODIX_CMD_ESD_ENABLED>>] }

EsdRetries == 3

(* the loop `while (--retries) { ... }` entered with retries; the result is
   the world and the value of retries when the loop is left *)
RECURSIVE esd_check_loop(_, _, _)
esd_check_loop(w, retries, reads) ==
    LET r == retries - 1 IN
    IF r = 0 THEN [w |-> w, retries |-> 0]
    ELSE LET rd == Head(reads)
             a == Step(w, <<"read", GOODIX_REG_COMMAND, rd.err, rd.data>>)
         IN IF rd.err # OK THEN esd_check_loop(a, r, Tail(reads))
            ELSE IF rd.data[1] # GOODIX_CMD_ESD_ENABLED /\ rd.data[2] = GOODIX_CMD_ESD_ENABLED
            THEN [w |-> goodix_i2c_write(a, GOODIX_REG_COMMAND, GOODIX_CMD_ESD_ENABLED, TRUE).w,
                  retries |-> r]
            ELSE esd_check_loop(a, r, Tail(reads))

RecoveryInputs(blobs) ==
    { in \in [reset : 0..5, fw : blobs \cup {<<>>}, cfg_write : BOOLEAN,
              req_irq : BOOLEAN, esd_write : BOOLEAN] :
        in.cfg_write => in.fw # <<>> }

(* the recovery branch with the IRQ re-requested before the reset *)
esd_recovery_irq_before_reset(w, in) ==
    LET a == goodix_free_irq(Step(w, <<"esd_recovery">>))
        d == goodix_request_irq(a, ~in.req_irq).w
        b == goodix_reset(d, in.reset).w
        c == IF in.fw = <<>> THEN Step(b, <<"request_firmware_failed">>)
             ELSE goodix_send_cfg(Step(b, <<"request_firmware">>), in.fw, ~in.cfg_write).w
    IN goodix_enable_esd(c, ~in.esd_write).w

esd_recovery(w, in) ==
    LET a == goodix_free_irq(Step(w, <<"esd_recovery">>))
        b == goodix_reset(a, in.reset).w
        c == IF in.fw = <<>> THEN Step(b, <<"request_firmware_failed">>)
             ELSE goodix_send_cfg(Step(b, <<"request_firmware">>), in.fw, ~in.cfg_write).w
        d == goodix_request_irq(c, ~in.req_irq).w
    IN goodix_enable_esd(d, ~in.esd_write).w

(* goodix_esd_work after wait_for_completion, up to `if (!retries)`: the
   result names where the tick goes on: "recover" (the recovery branch) or
   "idle" (rescheduled and returned) *)
goodix_esd_work(w, reads) ==
    LET l == esd_check_loop(w, EsdRetries, reads) IN
    IF l.retries = 0 THEN AtLabel(l.w, "recover")
    ELSE AtLabel(Step([l.w EXCEPT !.wk = TRUE], <<"schedule_esd", w.ts.esd_timeout>>), "idle")

---------------------------------------------------------------------------
(* Attribute surface, open / close, system resume *)

(* goodix_esd_timeout_store that enables ESD for every non-zero value *)
esd_timeout_store_always_enables(w, new_esd_timeout, ok) ==
    LET b == [w EXCEPT !.ts.esd_timeout = new_esd_timeout]
    IN IF new_esd_timeout # 0 /\ pm_runtime_active(b)
       THEN goodix_enable_esd(b, ok).w ELSE b

goodix_esd_timeout_store(w, new_esd_timeout, ok) ==
    LET esd_timeout == w.ts.esd_timeout
        a == IF esd_timeout # 0 /\ new_esd_timeout = 0 /\ pm_runtime_active(w)
             THEN goodix_disable_esd(w) ELSE w
        b == [a EXCEPT !.ts.esd_timeout = new_esd_timeout]
    IN IF esd_timeout = 0 /\ new_esd_timeout # 0 /\ pm_runtime_active(b)
       THEN goodix_enable_esd(b, ok).w ELSE b

(* goodix_open after wait_for_completion *)
goodix_open(w, f) ==
    LET a == goodix_set_power_state(w, TRUE, f) IN
    IF a.err # OK THEN a
    ELSE Ret([a.w EXCEPT !.ts.open_count = @ + 1], OK)

goodix_close(w) ==
    LET a == goodix_set_power_state(w, FALSE, NoWakeFailure).w IN
    [a EXCEPT !.ts.open_count = @ - 1]

goodix_resume(w, f) ==
    IF w.ts.open_count = 0 THEN Ret(w, OK) ELSE goodix_wakeup(w, f)

(* goodix_dump_config_show: read_ok is the outcome of the config read *)
goodix_dump_config_show(w, f, read_ok) ==
    LET a == goodix_set_power_state(w, TRUE, f) IN
    IF a.err # OK THEN a
    ELSE LET b == Step(a.w, <<"read", GOODIX_REG_CONFIG_DATA,
                              IF read_ok THEN OK ELSE EIO>>)
             c == goodix_set_power_state(b, FALSE, f).w
         IN Ret(c, IF read_ok THEN OK ELSE EIO)

(* goodix_ts_remove after wait_for_completion: pm_runtime_disable,
   pm_runtime_set_suspended, pm_runtime_put_noidle, sysfs_remove_group,
   goodix_disable_esd; then the driver core releases the devm resources *)
goodix_ts_remove(w) ==
    LET a == [w EXCEPT !.rpm.enabled = FALSE, !.rpm.status = "suspended",
                       !.rpm.error = FALSE]
        b == goodix_disable_esd(pm_runtime_put_noidle(a))
    IN [b EXCEPT !.hw.irq_held = FALSE, !.hw.irq_armed = 0, !.ts.input_dev = FALSE]


---------------------------------------------------------------------------
(* Interrupt path.  The chip's answer to one interrupt is in: header is the
   byte at 0x814E, contact the function giving the 8 bytes of contact i,
   f the bus transfers that fail, ub the outcome of an out-of-bounds write
   when it happens. *)

Ev(type, code, value) == [type |-> type, code |-> code, value |-> value]

(* the 8 register bytes of contact i: track id, x, y, w (little endian), reserved *)
contact_bytes(p, i) ==
    <<U8(p.id + i), U8(p.x + i), (p.x + i) \div 256, U8(p.y), p.y \div 256,
      U8(p.w), p.w \div 256, 0>>

RECURSIVE contacts_from(_, _, _)
contacts_from(p, i, n) ==
    IF i >= n THEN <<>> ELSE contact_bytes(p, i) \o contacts_from(p, i + 1, n)

(* goodix_ts_read_input_report without the `touch_num > ts->max_touch_num`
   rejection *)
read_input_report_unchecked(t, in) ==
    IF in.f.read1 THEN [err |-> EIO, touch_num |-> 0, data |-> <<>>, oob |-> FALSE]
    ELSE
    LET data == <<in.header>> \o contact_bytes(in.contact, 0)
        touch_num == data[1] % 16
    IN
    IF (data[1] \div 128) % 2 = 0
    THEN [err |-> EAGAIN, touch_num |-> 0, data |-> data, oob |-> FALSE]
    ELSE IF touch_num > 1
    THEN IF in.f.read2
         THEN [err |-> EIO, touch_num |-> 0, data |-> data, oob |-> FALSE]
         ELSE [err |-> OK, touch_num |-> touch_num,
               data |-> data \o contacts_from(in.contact, 1, touch_num),
               oob |-> touch_num > GOODIX_MAX_CONTACTS]
    ELSE [err |-> OK, touch_num |-> touch_num, data |-> data, oob |-> FALSE]

(* the result is err (OK for a return value >= 0), touch_num, the bytes
   now in point_data, and oob: the second read wrote past the end of
   point_data[1 + GOODIX_CONTACT_SIZE * GOODIX_MAX_CONTACTS] *)
goodix_ts_read_input_report(t, in) ==
    IF in.f.read1 THEN [err |-> EIO, touch_num |-> 0, data |-> <<>>, oob |-> FALSE]
    ELSE
    LET data == <<in.header>> \o contact_bytes(in.contact, 0)
        touch_num == data[1] % 16
    IN
    IF (data[1] \div 128) % 2 = 0
    THEN [err |-> EAGAIN, touch_num |-> 0, data |-> data, oob |-> FALSE]
    ELSE IF touch_num > t.max_touch_num
    THEN [err |-> EPROTO, touch_num |-> 0, data |-> data, oob |-> FALSE]
    ELSE IF touch_num > 1
    THEN IF in.f.read2
         THEN [err |-> EIO, touch_num |-> 0, data |-> data, oob |-> FALSE]
         ELSE [err |-> OK, touch_num |-> touch_num,
               data |-> data \o contacts_from(in.contact, 1, touch_num),
               oob |-> touch_num > GOODIX_MAX_CONTACTS]
    ELSE [err |-> OK, touch_num |-> touch_num, data |-> data, oob |-> FALSE]

(* goodix_ts_report_touch with the axis swap done before the inversions *)
report_touch_swap_first(t, coor_data) ==
    LET id == coor_data[1] % 16
        input_x == get_unaligned_le16(coor_data, 1)
        input_y == get_unaligned_le16(coor_data, 3)
        input_w == get_unaligned_le16(coor_data, 5)
        x1 == IF t.swapped_x_y THEN input_y ELSE input_x
        y1 == IF t.swapped_x_y THEN input_x ELSE input_y
        x2 == IF t.inverted_x THEN t.abs_x_max - x1 ELSE x1
        y2 == IF t.inverted_y THEN t.abs_y_max - y1 ELSE y1
    IN << Ev("slot", "ABS_MT_SLOT", id),
          Ev("slot_state", "MT_TOOL_FINGER", 1),
          Ev("abs", "ABS_MT_POSITION_X", x2),
          Ev("abs", "ABS_MT_POSITION_Y", y2),
          Ev("abs", "ABS_MT_TOUCH_MAJOR", input_w),
          Ev("abs", "ABS_MT_WIDTH_MAJOR", input_w) >>

(* coor_data is the 8-byte slice of point_data for one contact *)
goodix_ts_report_touch(t, coor_data) ==
    LET id == coor_data[1] % 16
        input_x == get_unaligned_le16(coor_data, 1)
        input_y == get_unaligned_le16(coor_data, 3)
        input_w == get_unaligned_le16(coor_data, 5)
        x1 == IF t.inverted_x THEN t.abs_x_max - input_x ELSE input_x
        y1 == IF t.inverted_y THEN t.abs_y_max - input_y ELSE input_y
        x2 == IF t.swapped_x_y THEN y1 ELSE x1
        y2 == IF t.swapped_x_y THEN x1 ELSE y1
    IN << Ev("slot", "ABS_MT_SLOT", id),
          Ev("slot_state", "MT_TOOL_FINGER", 1),
          Ev("abs", "ABS_MT_POSITION_X", x2),
          Ev("abs", "ABS_MT_POSITION_Y", y2),
          Ev("abs", "ABS_MT_TOUCH_MAJOR", input_w),
          Ev("abs", "ABS_MT_WIDTH_MAJOR", input_w) >>

(* for (i = 0; i < touch_num; i++)
       goodix_ts_report_touch(ts, &point_data[1 + GOODIX_CONTACT_SIZE * i]); *)
RECURSIVE report_loop(_, _, _, _)
report_loop(t, point_data, i, touch_num) ==
    IF i >= touch_num THEN <<>>
    ELSE goodix_ts_report_touch(t, SubSeq(point_data, 2 + GOODIX_CONTACT_SIZE * i,
                                          1 + GOODIX_CONTACT_SIZE * (i + 1)))
         \o report_loop(t, point_data, i + 1, touch_num)

(* goodix_process_events without the `if (touch_num < 0) return;` *)
process_events_ignoring_error(t, in) ==
    LET r == goodix_ts_read_input_report(t, in) IN
    [err |-> r.err, data |-> r.data, oob |-> r.oob,
     events |-> report_loop(t, r.data, 0, r.touch_num)
                \o << Ev("mt_sync_frame", "", 0), Ev("sync", "", 0) >>]

goodix_process_events(t, in) ==
    LET r == goodix_ts_read_input_report(t, in) IN
    IF r.err # OK
    THEN [err |-> r.err, data |-> r.data, oob |-> FALSE, events |-> <<>>]
    ELSE [err |-> OK, data |-> r.data, oob |-> r.oob,
          events |-> report_loop(t, r.data, 0, r.touch_num)
                     \o << Ev("mt_sync_frame", "", 0), Ev("sync", "", 0) >>]

(* what an out-of-bounds write into the handler's stack can do: no visible
   damage; the thread dies inside the read; the frame is emitted and the
   thread dies when goodix_process_events returns *)
OobOutcomes == {"none", "oops_in_read", "oops_on_return"}

(* goodix_ts_irq_handler: the result is what the interrupt left behind *)
goodix_ts_irq_handler(t, in) ==
    LET r == goodix_process_events(t, in)
        ub == IF r.oob THEN in.ub ELSE "none"
    IN
    IF ub = "oops_in_read"
    THEN [events |-> <<>>, ret |-> "oops", err |-> r.err, acks |-> <<>>, data |-> r.data]
    ELSE IF ub = "oops_on_return"
    THEN [events |-> r.events, ret |-> "oops", err |-> r.err, acks |-> <<>>,
          data |-> r.data]
    ELSE [events |-> r.events, ret |-> "IRQ_HANDLED", err |-> r.err,
          acks |-> << [reg |-> GOODIX_READ_COOR_ADDR, val |-> 0, ok |-> ~in.f.ack] >>,
          data |-> r.data]

---------------------------------------------------------------------------
(* State, initial states *)

W == [ts |-> ts, hw |-> hw, wk |-> esd_work.pending, rpm |-> rpm, steps |-> <<>>]

Commit(w) ==
    /\ ts' = w.ts
    /\ hw' = w.hw
    /\ rpm' = w.rpm
    /\ esd_work' = [esd_work EXCEPT !.pending = w.wk]

(* a tick is scheduled or running *)
EsdActive == esd_work.pending \/ esd_work.pc # "idle"

(* what a power transition must leave alone when it fails: the suspended
   flag, the IRQ registration (its flags, 0 when not held), the watchdog *)
Snapshot == [suspended |-> ts.suspended, irq |-> hw.irq_armed, esd |-> EsdActive]

NoSnapshot == [suspended |-> FALSE, irq |-> 0, esd |-> FALSE]

CountSteps(steps, name) == Cardinality({i \in 1..Len(steps) : steps[i][1] = name})

HasStep(steps, name) == CountSteps(steps, name) > 0

(* the record of the handler that returned last: op and ret are the handler
   and its result; cb the power callback it ran ("sleep", "wakeup" or
   "none") and cb_ret that callback's result; pre the snapshot at entry
   (kept for a failed callback and for ESD recovery); idle whether a system
   resume had left the device asleep with no opener (kept for open); reads
   the number of reads of 0x8040 a tick issued; old the esd_timeout a
   store replaced; irq the calls it made on the IRQ line in the wrong
   state (a request while held, a free while not held) *)
Returned(op, ret, cb, cb_ret, steps) ==
    [op |-> op, ret |-> ret, cb |-> cb, cb_ret |-> cb_ret,
     pre |-> IF (cb # "none" /\ cb_ret # OK) \/ op = "esd_recovery"
             THEN Snapshot ELSE NoSnapshot,
     idle |-> op = "open" /\ resumed_idle,
     reads |-> IF op = "esd_work" THEN CountSteps(steps, "read") ELSE 0,
     old |-> IF op = "esd_timeout_store" THEN ts.esd_timeout ELSE 0,
     irq |-> {s \in {"request_irq_busy", "free_irq_not_held"} : HasStep(steps, s)}]

(* sink: what the last interrupt left behind: the events emitted into the
   input device, the handler's return, the result of read_report, the
   register writes the handler issued after goodix_process_events, the
   bytes read into point_data *)
NoSink == [events |-> <<>>, ret |-> "none", err |-> OK, acks |-> <<>>, data |-> <<>>]

NoCall == [fn |-> "none"]

(* the PM callbacks that can run concurrently: the runtime-PM worker and
   the system sleep path *)
Threads == {1, 2}

IdleThread == [fn |-> "none", pc |-> "idle", f |-> <<>>, err |-> OK]

AuxInit ==
    /\ call = NoCall
    /\ trace = <<>>
    /\ mutex = 0
    /\ thr = [t \in Threads |-> IdleThread]

Ts0(gpios, addr, esd_timeout) ==
    [gpios |-> gpios, addr |-> addr,
     swapped_x_y |-> FALSE, inverted_x |-> FALSE, inverted_y |-> FALSE,
     abs_x_max |-> 0, abs_y_max |-> 0, max_touch_num |-> 0, int_trigger_type |-> 0,
     irq_flags |-> 0, esd_timeout |-> esd_timeout, suspended |-> FALSE,
     open_count |-> 0, firmware_loading_complete |-> FALSE, input_dev |-> FALSE]

Hw0 == [irq_held |-> FALSE, irq_armed |-> 0, int_dir |-> "input"]

Rpm0 == [enabled |-> FALSE, status |-> "suspended", usage |-> 0, error |-> FALSE]

(* the state goodix_ts_probe leaves: with both GPIOs the reset handshake
   has run and the continuation is pending; without them
   goodix_configure_dev has run and succeeded inside probe *)
ProbeInit(gpios, addr, esd_timeout, p, cfg_read) ==
    LET w0 == [ts |-> Ts0(gpios, addr, esd_timeout), hw |-> Hw0, wk |-> FALSE,
               rpm |-> Rpm0, steps |-> <<>>]
        w1 == IF gpios THEN w0
              ELSE goodix_configure_dev(w0, p,
                     [cfg_read |-> cfg_read, input |-> FALSE, req_irq |-> FALSE]).w
    IN /\ ts = w1.ts
       /\ hw = w1.hw
       /\ rpm = w1.rpm
       /\ esd_work = [pending |-> FALSE, pc |-> "idle"]
       /\ pc = [cb |-> IF gpios THEN "pending" ELSE "none", sys |-> "running",
                open |-> "idle", remove |-> "idle"]
       /\ platform = p
       /\ last = [op |-> "probe", ret |-> OK, cb |-> "none", cb_ret |-> OK,
                  pre |-> NoSnapshot, idle |-> FALSE, reads |-> 0, old |-> 0, irq |-> {}]
       /\ resumed_idle = FALSE
       /\ sink = NoSink
       /\ AuxInit

Platform(sw, ix, iy, dmi, cfg) ==
    [swapped_x_y |-> sw, inverted_x |-> ix, inverted_y |-> iy, dmi |-> dmi, dev_cfg |-> cfg]

(* on-chip config registers 0x8047..0x804D: 480 x 800, 5 contacts, trigger 3 *)
MainConfig == <<0, 224, 1, 32, 3, 5, 3>>

(* a config blob with a good checksum and the fresh flag: 3 payload bytes *)
GoodBlob == <<1, 2, 3, 250, 1>>

MainBlobs == {GoodBlob}

Init ==
    \E gpios \in BOOLEAN, t \in 0..MaxEsdTimeout :
        /\ (~gpios => t = 0)
        /\ ProbeInit(gpios, 20, t, Platform(FALSE, FALSE, FALSE, FALSE, MainConfig), FALSE)

---------------------------------------------------------------------------
(* Actions of the lifecycle specification.  A caller of
   wait_for_completion(&ts->firmware_loading_complete) has a position of
   its own ("wait") only while the barrier is unsignalled; once it is
   signalled the wait returns at once and the handler is one step. *)

Alive == pc.remove # "done"

UserSpace == Alive /\ pc.sys = "running"

Complete == ts.firmware_loading_complete

(* cancel_delayed_work_sync returns only when no tick is running *)
EsdCancelReturns == esd_work.pc = "idle"

(* the firmware loader delivers the blob (or none): goodix_config_cb up to
   the label err_release_cfg *)
ConfigCb ==
    /\ pc.cb = "pending"
    /\ \E in \in CbInputs(MainBlobs) :
       \E r \in {goodix_config_cb(W, platform, in)} :
        /\ Commit(r.w)
        /\ pc' = [pc EXCEPT !.cb = r.pc]
        /\ last' = Returned("config_cb", OK, "none", OK, r.w.steps)
    /\ UNCHANGED <<platform, resumed_idle, sink, aux>>

(* err_release_cfg: release_firmware; complete_all *)
ConfigCbRelease ==
    /\ pc.cb = "err_release_cfg"
    /\ ts' = [ts EXCEPT !.firmware_loading_complete = TRUE]
    /\ pc' = [pc EXCEPT !.cb = "done"]
    /\ UNCHANGED <<hw, esd_work, rpm, platform, last, resumed_idle, sink, aux>>

CanOpen == UserSpace /\ ts.input_dev /\ pc.open = "idle" /\ ts.open_count < MaxOpen

(* goodix_open blocks in wait_for_completion *)
OpenWait ==
    /\ CanOpen /\ ts.gpios /\ ~Complete
    /\ pc' = [pc EXCEPT !.open = "wait"]
    /\ UNCHANGED <<ts, hw, esd_work, rpm, platform, last, resumed_idle, sink, aux>>

Open ==
    /\ Alive /\ (pc.open = "wait" \/ CanOpen)
    /\ ts.gpios => (Complete /\ rpm.status # "suspending")
    /\ \E f \in WakeFailures :
       \E r \in {IF ts.gpios THEN goodix_open(W, f) ELSE Ret(W, OK)} :
       \E woke \in {HasStep(r.w.steps, "runtime_resume")} :
           /\ Commit(r.w)
           /\ last' = Returned("open", r.err, IF woke THEN "wakeup" ELSE "none",
                               IF woke THEN r.err ELSE OK, r.w.steps)
           /\ resumed_idle' = (resumed_idle /\ r.err # OK)
    /\ pc' = [pc EXCEPT !.open = "idle"]
    /\ UNCHANGED <<platform, sink, aux>>

Close ==
    /\ UserSpace /\ ts.input_dev /\ pc.open = "idle"
    /\ ts.gpios => ts.open_count > 0
    /\ \E w \in {IF ts.gpios THEN goodix_close(W) ELSE W} :
       Commit(w) /\ last' = Returned("close", OK, "none", OK, w.steps)
    /\ UNCHANGED <<pc, platform, resumed_idle, sink, aux>>

(* the autosuspend timer expires: the PM core marks the device suspending *)
RuntimeSuspendStart ==
    /\ Alive /\ rpm.enabled /\ ~rpm.error /\ rpm.status = "active" /\ rpm.usage = 0
    /\ rpm' = [rpm EXCEPT !.status = "suspending"]
    /\ UNCHANGED <<ts, hw, esd_work, pc, platform, last, resumed_idle, sink, aux>>

(* ... and calls runtime_suspend = goodix_sleep *)
RuntimeSuspend ==
    /\ Alive /\ rpm.status = "suspending" /\ Complete
    /\ (~ts.suspended /\ ts.esd_timeout # 0) => EsdCancelReturns
    /\ \E f \in SleepFailures :
       \E r \in {goodix_sleep(W, f)} :
       \E w \in {IF r.err = OK THEN [r.w EXCEPT !.rpm.status = "suspended"]
                  ELSE [r.w EXCEPT !.rpm.status = "active",
                                   !.rpm.error = r.err \notin {EAGAIN, EBUSY}]} :
           /\ Commit(w)
           /\ last' = Returned("runtime_suspend", r.err, "sleep", r.err, w.steps)
    /\ UNCHANGED <<pc, platform, resumed_idle, sink, aux>>

CanSystemSuspend ==
    UserSpace /\ pc.open = "idle" /\ pc.remove = "idle" /\ rpm.status # "suspending"

(* system suspend: user space is frozen, the PM core takes a runtime-PM
   reference and calls suspend = goodix_sleep, which blocks on the barrier *)
SystemSuspendWait ==
    /\ CanSystemSuspend /\ ts.gpios /\ ~Complete
    /\ pc' = [pc EXCEPT !.sys = "suspending"]
    /\ rpm' = [rpm EXCEPT !.usage = @ + 1]
    /\ UNCHANGED <<ts, hw, esd_work, platform, last, resumed_idle, sink, aux>>

SystemSuspend ==
    /\ pc.sys = "suspending" \/ CanSystemSuspend
    /\ ts.gpios => Complete
    /\ (ts.gpios /\ ~ts.suspended /\ ts.esd_timeout # 0) => EsdCancelReturns
    /\ \E f \in SleepFailures :
       \E w0 \in {IF pc.sys = "suspending" THEN W ELSE [W EXCEPT !.rpm.usage = @ + 1]} :
       \E r \in {goodix_sleep(w0, f)} :
       \E w \in {IF r.err = OK THEN r.w ELSE pm_runtime_put_noidle(r.w)} :
           /\ Commit(w)
           /\ pc' = [pc EXCEPT !.sys = IF r.err = OK THEN "suspended" ELSE "running"]
           /\ last' = Returned("suspend", r.err, "sleep", r.err, w.steps)
    /\ UNCHANGED <<platform, resumed_idle, sink, aux>>

(* system resume: resume = goodix_resume, then the PM core drops its reference *)
SystemResume ==
    /\ pc.sys = "suspended"
    /\ \E f \in WakeFailures :
       \E r \in {goodix_resume(W, f)} :
       \E w \in {pm_runtime_put_noidle(r.w)} :
       \E woke \in {ts.gpios /\ ts.open_count # 0} :
           /\ Commit(w)
           /\ last' = Returned("resume", r.err, IF woke THEN "wakeup" ELSE "none",
                               r.err, w.steps)
    /\ resumed_idle' = (ts.gpios /\ ts.open_count = 0)
    /\ pc' = [pc EXCEPT !.sys = "running"]
    /\ UNCHANGED <<platform, sink, aux>>

EsdTimeoutStore ==
    /\ UserSpace /\ ts.gpios /\ pc.remove = "idle"
    /\ \E new \in 0..MaxEsdTimeout, ok \in BOOLEAN :
        /\ (ts.esd_timeout # 0 /\ new = 0 /\ pm_runtime_active(W)) => EsdCancelReturns
        /\ \E w \in {goodix_esd_timeout_store(W, new, ok)} :
           Commit(w) /\ last' = Returned("esd_timeout_store", OK, "none", OK, w.steps)
    /\ UNCHANGED <<pc, platform, resumed_idle, sink, aux>>

DumpConfig ==
    /\ UserSpace /\ ts.gpios /\ pc.remove = "idle" /\ rpm.status # "suspending"
    /\ \E f \in WakeFailures, read_ok \in BOOLEAN :
       \E r \in {goodix_dump_config_show(W, f, read_ok)} :
       \E woke \in {HasStep(r.w.steps, "runtime_resume")} :
       \E read \in {HasStep(r.w.steps, "read")} :
           /\ Commit(r.w)
           /\ last' = Returned("dump_config", r.err, IF woke THEN "wakeup" ELSE "none",
                               IF woke /\ ~read THEN r.err ELSE OK, r.w.steps)
    /\ UNCHANGED <<pc, platform, resumed_idle, sink, aux>>

(* the delayed work's timer fires while the barrier is unsignalled:
   goodix_esd_work blocks in wait_for_completion *)
EsdWait ==
    /\ esd_work.pending /\ esd_work.pc = "idle" /\ ~Complete
    /\ esd_work' = [pending |-> FALSE, pc |-> "wait"]
    /\ UNCHANGED <<ts, hw, rpm, pc, platform, last, resumed_idle, sink, aux>>

(* the tick's health check, up to `if (!retries)` *)
EsdTick ==
    /\ Complete
    /\ esd_work.pc = "wait" \/ (esd_work.pc = "idle" /\ esd_work.pending)
    /\ \E reads \in [1..EsdRetries -> EsdReadings] :
       \E w0 \in {IF esd_work.pc = "wait" THEN W ELSE [W EXCEPT !.wk = FALSE]} :
       \E r \in {goodix_esd_work(w0, reads)} :
           /\ ts' = r.w.ts /\ hw' = r.w.hw /\ rpm' = r.w.rpm
           /\ esd_work' = [pending |-> r.w.wk, pc |-> r.pc]
           /\ last' = Returned("esd_work", OK, "none", OK, r.w.steps)
    /\ UNCHANGED <<pc, platform, resumed_idle, sink, aux>>

(* the tick's recovery branch, to its return *)
EsdRecovery ==
    /\ esd_work.pc = "recover"
    /\ \E in \in RecoveryInputs(MainBlobs) :
       \E w \in {esd_recovery(W, in)} :
        /\ ts' = w.ts /\ hw' = w.hw /\ rpm' = w.rpm
        /\ esd_work' = [pending |-> w.wk, pc |-> "idle"]
        /\ last' = Returned("esd_recovery", OK, "none", OK, w.steps)
    /\ UNCHANGED <<pc, platform, resumed_idle, sink, aux>>

CanRemove == UserSpace /\ pc.remove = "idle" /\ pc.open = "idle"

(* driver unbind: goodix_ts_remove blocks in wait_for_completion *)
RemoveWait ==
    /\ CanRemove /\ ts.gpios /\ ~Complete
    /\ pc' = [pc EXCEPT !.remove = "wait"]
    /\ UNCHANGED <<ts, hw, esd_work, rpm, platform, last, resumed_idle, sink, aux>>

Remove ==
    /\ (pc.remove = "wait" /\ pc.sys = "running" /\ pc.open = "idle") \/ CanRemove
    /\ ts.gpios => (Complete /\ rpm.status # "suspending")
    /\ (ts.gpios /\ ts.esd_timeout # 0) => EsdCancelReturns
    /\ \E w \in {IF ts.gpios THEN goodix_ts_remove(W) ELSE W} :
       Commit(w) /\ last' = Returned("remove", OK, "none", OK, w.steps)
    /\ pc' = [pc EXCEPT !.remove = "done"]
    /\ UNCHANGED <<platform, resumed_idle, sink, aux>>

Next ==
    \/ ConfigCb \/ ConfigCbRelease
    \/ OpenWait \/ Open \/ Close
    \/ RuntimeSuspendStart \/ RuntimeSuspend
    \/ SystemSuspendWait \/ SystemSuspend \/ SystemResume
    \/ EsdTimeoutStore \/ DumpConfig
    \/ EsdWait \/ EsdTick \/ EsdRecovery
    \/ RemoveWait \/ Remove

Spec == Init /\ [][Next]_vars

---------------------------------------------------------------------------
(* Interrupt specification: a device configured in probe (no GPIOs, so no
   power management), then interrupts *)

(* on-chip config: 480 x 800 with 2 contacts, trigger 3; the same panel
   announcing 12 contacts, trigger 1 *)
DecConfigs == { <<0, 224, 1, 32, 3, 2, 3>>, <<0, 224, 1, 32, 3, 12, 1>> }

(* header bytes: not ready (0x00, 0x42); ready with 0, 1, 2, 3, 11 and 15
   contacts; ready with 2 contacts and bit 4 set (0x92) *)
DecHeaders == {0, 66, 128, 129, 130, 131, 139, 143, 146}

(* contact i of a report has track id byte id + i, x + i, y, w *)
DecContacts ==
    { [id |-> 0, x |-> 100, y |-> 700, w |-> 5],
      [id |-> 30, x |-> 500, y |-> 3, w |-> 300] }

(* TRUE: that transfer fails *)
DecFailures == [read1 : BOOLEAN, read2 : BOOLEAN, ack : BOOLEAN]

InitDec ==
    \E sw \in BOOLEAN, ix \in BOOLEAN, iy \in BOOLEAN, dmi \in BOOLEAN,
       cfg_read \in BOOLEAN, cfg \in DecConfigs :
        ProbeInit(FALSE, 20, 0, Platform(sw, ix, iy, dmi, cfg), cfg_read)

(* the chip raises INT while the IRQ is armed *)
Irq ==
    /\ hw.irq_held /\ sink.ret # "oops"
    /\ \E header \in DecHeaders, contact \in DecContacts, f \in DecFailures,
          ub \in OobOutcomes :
        sink' = goodix_ts_irq_handler(ts, [header |-> header, contact |-> contact,
                                           f |-> f, ub |-> ub])
    /\ UNCHANGED <<ts, hw, esd_work, rpm, pc, platform, last, resumed_idle, aux>>

NextDec == Irq

SpecDec == InitDec /\ [][NextDec]_vars

---------------------------------------------------------------------------
(* Configuration specification: the config validator, the config sender
   and the panel capability reader applied to bounded firmware blobs and
   register contents *)

(* blob lengths: the shortest, short ones, the GT911 length, the longest
   accepted, one byte too long *)
CfgLens == {2, 3, 4, 186, 240, 241}

(* a blob of len bytes: payload byte i is fill + i, then the two's
   complement checksum of the payload plus delta, then the fresh flag *)
RECURSIVE PayloadSum(_, _, _)
PayloadSum(fill, lo, hi) ==
    IF lo > hi THEN 0
    ELSE IF lo = hi THEN (fill + lo) % 256
    ELSE PayloadSum(fill, lo, (lo + hi) \div 2) + PayloadSum(fill, (lo + hi) \div 2 + 1, hi)

Blob(len, fill, delta, fresh) ==
    [i \in 1..len |->
        IF i <= len - 2 THEN (fill + i) % 256
        ELSE IF i = len - 1 THEN (256 * len - PayloadSum(fill, 1, len - 2) + delta) % 256
        ELSE fresh]

CfgBlobs ==
    { Blob(len, fill, delta, fresh) :
        len \in CfgLens, fill \in {0, 7, 255}, delta \in {0, 1, 255}, fresh \in {0, 1, 2} }

(* on-chip config registers 0x8047..0x804D: a valid panel; zero x, zero y,
   zero contacts; contact byte 0x10 and 0x0F; 65535 x 4097 with trigger
   byte 7; trigger byte 4 *)
CfgRegs ==
    { <<0, 224, 1, 32, 3, 5, 3>>,
      <<0, 0, 0, 32, 3, 5, 1>>,
      <<0, 224, 1, 0, 0, 5, 1>>,
      <<0, 224, 1, 32, 3, 0, 1>>,
      <<0, 224, 1, 32, 3, 16, 1>>,
      <<0, 224, 1, 32, 3, 15, 2>>,
      <<0, 255, 255, 1, 16, 10, 7>>,
      <<0, 224, 1, 32, 3, 5, 4>> }

(* read_ok is the outcome of the bus transfer the call makes *)
CfgCall(fn, cfg, ret, read_ok) == [fn |-> fn, cfg |-> cfg, ret |-> ret, read_ok |-> read_ok]

(* probe has run with both GPIOs; a firmware blob or a register content is
   drawn *)
InitCfg ==
    \E sw \in BOOLEAN, ix \in BOOLEAN, iy \in BOOLEAN, dmi \in BOOLEAN,
       regs \in CfgRegs, blob \in CfgBlobs \cup {GoodBlob} :
        /\ (regs = MainConfig /\ ~sw /\ ~ix /\ ~iy /\ ~dmi) \/ blob = GoodBlob
        /\ ts = Ts0(TRUE, 20, 0)
        /\ hw = Hw0
        /\ rpm = Rpm0
        /\ esd_work = [pending |-> FALSE, pc |-> "idle"]
        /\ pc = [cb |-> "pending", sys |-> "running", open |-> "idle", remove |-> "idle"]
        /\ platform = Platform(sw, ix, iy, dmi, regs)
        /\ last = [op |-> "probe", ret |-> OK, cb |-> "none", cb_ret |-> OK,
                   pre |-> NoSnapshot, idle |-> FALSE, reads |-> 0, old |-> 0, irq |-> {}]
        /\ resumed_idle = FALSE
        /\ sink = NoSink
        /\ call = CfgCall("input", blob, OK, TRUE)
        /\ trace = <<>>
        /\ mutex = 0
        /\ thr = [t \in Threads |-> IdleThread]

(* goodix_check_cfg on the blob *)
CheckCfg ==
    /\ call' = CfgCall("check_cfg", call.cfg, goodix_check_cfg(call.cfg), TRUE)
    /\ trace' = <<>>
    /\ UNCHANGED <<ts, hw, esd_work, rpm, pc, platform, last, resumed_idle, sink,
                   mutex, thr>>

(* goodix_send_cfg on the blob; ok is the outcome of the bus write *)
SendCfg ==
    /\ \E ok \in BOOLEAN :
       \E r \in {goodix_send_cfg(W, call.cfg, ok)} :
        /\ call' = CfgCall("send_cfg", call.cfg, r.err, ok)
        /\ trace' = r.w.steps
    /\ UNCHANGED <<ts, hw, esd_work, rpm, pc, platform, last, resumed_idle, sink,
                   mutex, thr>>

(* the start of goodix_configure_dev: the three properties are read, then
   goodix_read_config; read_ok is the outcome of the register read *)
ReadConfig ==
    /\ \E read_ok \in BOOLEAN :
        /\ ts' = goodix_read_config([ts EXCEPT !.swapped_x_y = platform.swapped_x_y,
                                               !.inverted_x = platform.inverted_x,
                                               !.inverted_y = platform.inverted_y],
                                    read_ok, platform.dev_cfg, platform.dmi)
        /\ call' = CfgCall("read_config", call.cfg, OK, read_ok)
    /\ trace' = <<>>
    /\ UNCHANGED <<hw, esd_work, rpm, pc, platform, last, resumed_idle, sink, mutex, thr>>

NextCfg == CheckCfg \/ SendCfg \/ ReadConfig

SpecCfg == InitCfg /\ [][NextCfg]_vars

---------------------------------------------------------------------------
(* Locking specification: two threads call goodix_sleep and goodix_wakeup
   concurrently on a configured device (the system-sleep thread and a
   runtime-PM caller); each call is split at mutex_lock, the test of
   suspended, the transition and mutex_unlock.  mutex is the owner, 0 when
   free. *)

(* mutex_lock without mutual exclusion: the caller never waits *)
mutex_lock_without_exclusion(m, t) == [acquired |-> TRUE, owner |-> t]

(* mutex_lock: the caller proceeds only once the mutex is free *)
mutex_lock(m, t) ==
    IF m = 0 THEN [acquired |-> TRUE, owner |-> t] ELSE [acquired |-> FALSE, owner |-> m]

mutex_unlock(m, t) == 0

(* the continuation has run without failure and signalled the barrier *)
InitMutex ==
    \E e \in 0..MaxEsdTimeout, addr \in {20, 93} :
    \E p \in {Platform(FALSE, FALSE, FALSE, FALSE, MainConfig)} :
    \E r \in {goodix_config_cb([ts |-> Ts0(TRUE, addr, e), hw |-> Hw0, wk |-> FALSE,
                                rpm |-> Rpm0, steps |-> <<>>], p,
                               [fw |-> GoodBlob, cfg_write |-> FALSE,
                                conf |-> NoConfigureFailure, esd_write |-> FALSE,
                                set_active |-> FALSE])} :
        /\ ts = [r.w.ts EXCEPT !.firmware_loading_complete = TRUE]
        /\ hw = r.w.hw
        /\ rpm = r.w.rpm
        /\ esd_work = [pending |-> r.w.wk, pc |-> "idle"]
        /\ pc = [cb |-> "done", sys |-> "running", open |-> "idle", remove |-> "idle"]
        /\ platform = p
        /\ last = [op |-> "config_cb", ret |-> OK, cb |-> "none", cb_ret |-> OK,
                   pre |-> NoSnapshot, idle |-> FALSE, reads |-> 0, old |-> 0, irq |-> {}]
        /\ resumed_idle = FALSE
        /\ sink = NoSink
        /\ AuxInit

(* a thread enters goodix_sleep or goodix_wakeup; wait_for_completion
   returns at once *)
MCall ==
    /\ \E t \in Threads, fn \in {"sleep", "wakeup"} :
        /\ thr[t].pc = "idle"
        /\ \E f \in (IF fn = "sleep" THEN SleepFailures ELSE WakeFailures) :
            thr' = [thr EXCEPT ![t] = [fn |-> fn, pc |-> "lock", f |-> f, err |-> OK]]
    /\ UNCHANGED <<ts, hw, esd_work, rpm, pc, platform, last, resumed_idle, sink,
                   call, trace, mutex>>

(* mutex_lock(&ts->mutex) *)
MLock ==
    /\ \E t \in Threads :
        /\ thr[t].pc = "lock"
        /\ \E r \in {mutex_lock(mutex, t)} :
            /\ r.acquired
            /\ mutex' = r.owner
        /\ thr' = [thr EXCEPT ![t].pc = "check"]
    /\ UNCHANGED <<ts, hw, esd_work, rpm, pc, platform, last, resumed_idle, sink,
                   call, trace>>

(* if (ts->suspended) / if (!ts->suspended): goto out_error *)
MCheck ==
    /\ \E t \in Threads :
        /\ thr[t].pc = "check"
        /\ thr' = [thr EXCEPT ![t].pc =
                      IF ts.suspended = (thr[t].fn = "sleep") THEN "unlock" ELSE "body"]
    /\ UNCHANGED <<ts, hw, esd_work, rpm, pc, platform, last, resumed_idle, sink,
                   call, trace, mutex>>

(* the transition, up to the unlock *)
MBody ==
    /\ \E t \in Threads :
        /\ thr[t].pc = "body"
        /\ \E r \in {IF thr[t].fn = "sleep" THEN goodix_sleep_locked(W, thr[t].f)
                                            ELSE goodix_wakeup_locked(W, thr[t].f)} :
            /\ Commit(r.w)
            /\ thr' = [thr EXCEPT ![t].pc = "unlock", ![t].err = r.err]
    /\ UNCHANGED <<pc, platform, last, resumed_idle, sink, call, trace, mutex>>

(* mutex_unlock(&ts->mutex); return error *)
MUnlock ==
    /\ \E t \in Threads :
        /\ thr[t].pc = "unlock"
        /\ mutex' = mutex_unlock(mutex, t)
        /\ thr' = [thr EXCEPT ![t] = IdleThread]
    /\ UNCHANGED <<ts, hw, esd_work, rpm, pc, platform, last, resumed_idle, sink,
                   call, trace>>

NextMutex == MCall \/ MLock \/ MCheck \/ MBody \/ MUnlock

SpecMutex == InitMutex /\ [][NextMutex]_vars

---------------------------------------------------------------------------
(* Sequence specification: probe, the continuation, then sleeps, wakes and
   ESD ticks, each run to its return; trace holds the calls the last one
   made, call its name, its failure choice and its result *)

(* reset: where the handshake fails (0: nowhere); i2c_test: the bus test
   after it fails; esd_timeout: the value of the esd-recovery-timeout-ms
   property *)
ProbeInputs ==
    { in \in [reset : 0..5, i2c_test : BOOLEAN, esd_timeout : 0..MaxEsdTimeout] :
        in.reset # 0 => (~in.i2c_test /\ in.esd_timeout = 0) }

(* goodix_ts_probe from the GPIO lookup on, with both GPIOs: the result
   names where probe leaves the device: "aborted" (probe returned an error)
   or "pending" (the firmware loader holds the continuation) *)
goodix_ts_probe(w, in) ==
    LET r == IF w.ts.gpios THEN goodix_reset(w, in.reset) ELSE Ret(w, OK) IN
    IF r.err # OK THEN [w |-> r.w, err |-> r.err, pc |-> "aborted"]
    ELSE IF in.i2c_test
    THEN [w |-> Step(r.w, <<"i2c_test_failed">>), err |-> EIO, pc |-> "aborted"]
    ELSE [w |-> Step(Step([r.w EXCEPT !.ts.esd_timeout = in.esd_timeout], <<"i2c_test">>),
                     <<"request_firmware_nowait">>),
          err |-> OK, pc |-> "pending"]

TraceCall(fn, f, ret) == [fn |-> fn, f |-> f, ret |-> ret]

(* probe is about to look up the GPIOs: both are present *)
InitTrace ==
    \E addr \in {20, 93} :
        /\ ts = Ts0(TRUE, addr, 0)
        /\ hw = Hw0
        /\ rpm = Rpm0
        /\ esd_work = [pending |-> FALSE, pc |-> "idle"]
        /\ pc = [cb |-> "probe", sys |-> "running", open |-> "idle", remove |-> "idle"]
        /\ platform = Platform(FALSE, FALSE, FALSE, FALSE, MainConfig)
        /\ last = [op |-> "none", ret |-> OK, cb |-> "none", cb_ret |-> OK,
                   pre |-> NoSnapshot, idle |-> FALSE, reads |-> 0, old |-> 0, irq |-> {}]
        /\ resumed_idle = FALSE
        /\ sink = NoSink
        /\ AuxInit

TProbe ==
    /\ pc.cb = "probe"
    /\ \E in \in ProbeInputs :
       \E r \in {goodix_ts_probe(W, in)} :
        /\ Commit(r.w)
        /\ pc' = [pc EXCEPT !.cb = r.pc]
        /\ call' = TraceCall("probe", in, r.err)
        /\ trace' = r.w.steps
    /\ UNCHANGED <<platform, last, resumed_idle, sink, mutex, thr>>

(* goodix_config_cb, to its return *)
TConfigCb ==
    /\ pc.cb = "pending"
    /\ \E in \in CbInputs(MainBlobs) :
       \E r \in {goodix_config_cb(W, platform, in)} :
        /\ Commit([r.w EXCEPT !.ts.firmware_loading_complete = TRUE])
        /\ pc' = [pc EXCEPT !.cb = "done"]
        /\ call' = TraceCall("config_cb", in, OK)
        /\ trace' = r.w.steps
    /\ UNCHANGED <<platform, last, resumed_idle, sink, mutex, thr>>

(* goodix_sleep, to its return *)
TSleep ==
    /\ pc.cb = "done"
    /\ \E f \in SleepFailures :
       \E r \in {goodix_sleep(W, f)} :
        /\ Commit(r.w)
        /\ call' = TraceCall("sleep", f, r.err)
        /\ trace' = r.w.steps
    /\ UNCHANGED <<pc, platform, last, resumed_idle, sink, mutex, thr>>

(* goodix_wakeup, to its return *)
TWakeup ==
    /\ pc.cb = "done"
    /\ \E f \in WakeFailures :
       \E r \in {goodix_wakeup(W, f)} :
        /\ Commit(r.w)
        /\ call' = TraceCall("wakeup", f, r.err)
        /\ trace' = r.w.steps
    /\ UNCHANGED <<pc, platform, last, resumed_idle, sink, mutex, thr>>

(* the answers to the reads of a tick; the loop never asks for the last
   one, which is listed once *)
TickReads == { reads \in [1..EsdRetries -> EsdReadings] : reads[EsdRetries] = reads[1] }

(* the recovery inputs of a tick that does not recover *)
NoRecovery == [reset |-> 0, fw |-> <<>>, cfg_write |-> FALSE, req_irq |-> FALSE,
               esd_write |-> FALSE]

(* a whole tick of goodix_esd_work: the health check and, when it decides
   so, the recovery *)
TEsdTick ==
    /\ pc.cb = "done" /\ esd_work.pending
    /\ \E reads \in TickReads :
       \E l \in {goodix_esd_work([W EXCEPT !.wk = FALSE], reads)} :
       \E in \in (IF l.pc = "recover" THEN RecoveryInputs(MainBlobs) ELSE {NoRecovery}) :
       \E w \in {IF l.pc = "recover" THEN esd_recovery(l.w, in) ELSE l.w} :
        /\ Commit(w)
        /\ call' = TraceCall("esd_work", in, OK)
        /\ trace' = w.steps
    /\ UNCHANGED <<pc, platform, last, resumed_idle, sink, mutex, thr>>

NextTrace == TProbe \/ TConfigCb \/ TSleep \/ TWakeup \/ TEsdTick

SpecTrace == InitTrace /\ [][NextTrace]_vars

(* the firmware loader always calls the continuation, and the continuation
   runs to its end *)
FairSpec == Spec /\ WF_vars(ConfigCb) /\ WF_vars(ConfigCbRelease)

---------------------------------------------------------------------------
(* Claims on the lifecycle specification *)

(* C1: once the continuation has finished with the device configured and
   runtime PM enabled (and outside a runtime-PM transition in progress and
   before remove), a tick is scheduled or running if and only if
   esd_timeout > 0 and the device is not suspended. *)
C1_EsdActiveIffEnabled ==
    (ts.gpios /\ pc.cb = "done" /\ pc.remove = "idle" /\ rpm.enabled
              /\ rpm.status # "suspending")
        => (EsdActive <=> (ts.esd_timeout > 0 /\ ~ts.suspended))

(* a caller blocked in wait_for_completion(&ts->firmware_loading_complete):
   open, remove, sleep (system or runtime) or an ESD tick *)
BarrierWaiter ==
    /\ ~Complete
    /\ \/ pc.open = "wait"
       \/ pc.remove = "wait"
       \/ pc.sys = "suspending"
       \/ rpm.status = "suspending"
       \/ esd_work.pc = "wait"

(* C2: the continuation signals firmware_loading_complete on every exit, so
   it never ends with the barrier unsignalled and every caller waiting on
   the barrier is eventually released. *)
C2_BarrierSignalledOnEveryExit ==
    /\ [](pc.cb = "done" => Complete)
    /\ BarrierWaiter ~> Complete

(* C2 witness: the continuation left by a failure exit (no input device
   registered) has signalled the barrier while remove and an ESD tick were
   blocked on it *)
C2_Witness ==
    /\ pc.cb = "done" /\ Complete /\ ~ts.input_dev
    /\ pc.remove = "wait" /\ esd_work.pc = "wait"

(* C3: a successful open that follows a system resume which found
   open_count == 0 leaves the device awake: suspended is false and the IRQ
   is armed. *)
C3_OpenAfterIdleResumeWakes ==
    (last.op = "open" /\ last.ret = OK /\ last.idle)
        => (~ts.suspended /\ hw.irq_held)

(* C4: when sleep or wake returns an error, the suspended flag, the IRQ
   registration and the ESD watchdog are as they were at entry. *)
C4_FailedTransitionRestoresState ==
    (last.cb \in {"sleep", "wakeup"} /\ last.cb_ret # OK) => Snapshot = last.pre

(* C5: when sleep returns an error (every failure in it comes after the IRQ
   was freed), INT is an input again, the IRQ is held again and suspended
   is false. *)
C5_SleepFailureRestoresIrq ==
    (last.cb = "sleep" /\ last.cb_ret # OK)
        => (hw.int_dir = "input" /\ hw.irq_held /\ ~ts.suspended)

(* C6: when an ESD recovery that began with the IRQ armed has completed,
   the IRQ is armed with the flags it had before. *)
C6_RecoveryRearmsIrq ==
    (last.op = "esd_recovery" /\ last.pre.irq # 0) => hw.irq_armed = last.pre.irq

(* C7: a tick makes up to 3 reads of 0x8040 and goes to recovery only when
   3 reads have failed. *)
C7_RecoveryAfterThreeAttempts ==
    /\ last.op = "esd_work" => last.reads <= 3
    /\ (last.op = "esd_work" /\ esd_work.pc = "recover") => last.reads = 3

---------------------------------------------------------------------------
(* Claims on the interrupt specification *)

(* C8: when read_report failed (no frame ready, protocol error or bus
   error), the interrupt emitted nothing into the sink, issued the write of
   0 to register 0x814E (33102) and returned IRQ_HANDLED. *)
C8_FailedReadEmitsNothingAndAcks ==
    (sink.ret # "none" /\ sink.err # OK)
        => /\ sink.events = <<>>
           /\ Len(sink.acks) = 1
           /\ sink.acks[1].reg = 33102 /\ sink.acks[1].val = 0
           /\ sink.ret = "IRQ_HANDLED"

(* C8 witness: a report announcing more contacts than max_touch_num
   (ProtocolError) has been dropped and acknowledged *)
C8_Witness ==
    /\ sink.err = EPROTO /\ sink.events = <<>> /\ sink.ret = "IRQ_HANDLED"
    /\ Len(sink.acks) = 1 /\ sink.data # <<>> /\ sink.data[1] >= 128

(* the positions in the sink of the slot selections of the frame *)
SlotEvents == {i \in 1..Len(sink.events) : sink.events[i].type = "slot"}

(* C9: in every emitted frame the number of contacts is between 0 and
   max_touch_num and every slot id selected is in 0..15. *)
C9_FrameWithinBounds ==
    sink.events # <<>>
        => /\ Cardinality(SlotEvents) >= 0
           /\ Cardinality(SlotEvents) <= ts.max_touch_num
           /\ \A i \in SlotEvents : sink.events[i].value \in 0..15

(* C9 witness: a frame of exactly max_touch_num contacts whose first track
   id byte has bits above the low nibble set *)
C9_Witness ==
    /\ sink.events # <<>>
    /\ Cardinality(SlotEvents) = ts.max_touch_num
    /\ sink.data[2] >= 16

(* C10: contact i of an emitted frame, read from the report bytes as
   (x, y, w), is emitted at (x', y') where (xi, yi) is (x, y) with the
   configured inversions applied and (x', y') is (yi, xi) when the axes are
   swapped, (xi, yi) otherwise; touch major and width major are both w. *)
C10_InversionThenSwap ==
    \A i \in 0..(Cardinality(SlotEvents) - 1) :
        LET raw == SubSeq(sink.data, 2 + 8 * i, 9 + 8 * i)
            x == raw[2] + 256 * raw[3]
            y == raw[4] + 256 * raw[5]
            w == raw[6] + 256 * raw[7]
            xi == IF ts.inverted_x THEN ts.abs_x_max - x ELSE x
            yi == IF ts.inverted_y THEN ts.abs_y_max - y ELSE y
            e == SubSeq(sink.events, 6 * i + 1, 6 * i + 6)
        IN /\ e[3] = Ev("abs", "ABS_MT_POSITION_X", IF ts.swapped_x_y THEN yi ELSE xi)
           /\ e[4] = Ev("abs", "ABS_MT_POSITION_Y", IF ts.swapped_x_y THEN xi ELSE yi)
           /\ e[5] = Ev("abs", "ABS_MT_TOUCH_MAJOR", w)
           /\ e[6] = Ev("abs", "ABS_MT_WIDTH_MAJOR", w)

(* C10 witness: a frame of two contacts on a panel with only the x axis
   inverted, the axes swapped and unequal extents *)
C10_Witness ==
    /\ Cardinality(SlotEvents) = 2
    /\ ts.inverted_x /\ ~ts.inverted_y /\ ts.swapped_x_y
    /\ ts.abs_x_max # ts.abs_y_max

---------------------------------------------------------------------------
(* Claims on the configuration specification *)

(* the plain sum of the bytes lo..hi of a blob *)
RECURSIVE ByteTotal(_, _, _)
ByteTotal(b, lo, hi) ==
    IF lo > hi THEN 0
    ELSE IF lo = hi THEN b[lo]
    ELSE ByteTotal(b, lo, (lo + hi) \div 2) + ByteTotal(b, (lo + hi) \div 2 + 1, hi)

(* C11: a blob of length L >= 2 is accepted exactly when L <= 240, the
   bytes 0..L-3 plus the checksum byte B[L-2] sum to 0 modulo 256, and the
   fresh flag B[L-1] is 1. *)
C11_ValidateAcceptsExactly ==
    (call.fn = "check_cfg" /\ Len(call.cfg) >= 2)
        => ((call.ret = OK)
              <=> (/\ Len(call.cfg) <= 240
                   /\ ByteTotal(call.cfg, 1, Len(call.cfg) - 1) % 256 = 0
                   /\ call.cfg[Len(call.cfg)] = 1))

(* C11 witness: a blob of the longest accepted length, with a non-trivial
   payload, has been accepted *)
C11_Witness ==
    /\ call.fn = "check_cfg" /\ call.ret = OK
    /\ Len(call.cfg) = 240 /\ call.cfg[1] # 0

(* C12: after the capability read, abs_x_max and abs_y_max are in 1..4096,
   max_touch_num is in 1..10 (so a full report fits the 1 + 8 * 10 byte
   buffer), and the IRQ trigger index is in 0..3. *)
C12_CapabilitiesInRange ==
    call.fn = "read_config"
        => /\ ts.abs_x_max \in 1..GOODIX_MAX_WIDTH
           /\ ts.abs_y_max \in 1..GOODIX_MAX_WIDTH
           /\ ts.max_touch_num \in 1..GOODIX_MAX_CONTACTS
           /\ ts.int_trigger_type \in 0..3

(* C13: on a platform of the rotated-screen quirk list, inverted_x and
   inverted_y are both true when the capability read returns, whatever the
   outcome of the config read. *)
C13_QuirkForcesInversion ==
    (call.fn = "read_config" /\ platform.dmi)
        => (ts.inverted_x /\ ts.inverted_y)

---------------------------------------------------------------------------
(* Claims on the attribute surface and on open / close *)

(* C14: storing into esd_timeout the value it already holds is a no-op: the
   value and the rest of the state are unchanged and no call is made (ESD
   is neither enabled, disabled, cancelled nor rescheduled), whether the
   value is zero or not and whether the device is runtime-active or not. *)
C14_StoreSameValueIsNoOp ==
    [][(EsdTimeoutStore /\ ts'.esd_timeout = ts.esd_timeout)
         => /\ UNCHANGED <<ts, hw, esd_work, rpm>>
            /\ \A ok \in BOOLEAN : goodix_esd_timeout_store(W, ts.esd_timeout, ok) = W]_vars

(* C14 witness: a non-zero esd_timeout has been stored over itself on a
   runtime-active device *)
C14_Witness ==
    /\ last.op = "esd_timeout_store"
    /\ last.old = ts.esd_timeout /\ ts.esd_timeout # 0
    /\ rpm.enabled /\ pm_runtime_active(W)

(* C15: a successful open followed directly by close leaves open_count and
   the runtime-PM usage count as they were before the open; an open that
   fails to power the device on leaves both unchanged; open_count is never
   negative. *)
C15_OpenCloseBalanced ==
    /\ [](ts.open_count >= 0)
    /\ [][/\ (last'.op = "open" /\ last'.ret = OK /\ Open)
               => \E w \in {IF ts.gpios THEN goodix_close(W') ELSE W'} :
                     /\ w.ts.open_count = ts.open_count
                     /\ w.rpm.usage = rpm.usage
          /\ (last'.op = "open" /\ last'.ret # OK /\ Open)
               => /\ ts'.open_count = ts.open_count
                  /\ rpm'.usage = rpm.usage
          /\ (last'.op = "close" /\ ts.gpios /\ Close)
               => /\ ts'.open_count = ts.open_count - 1
                  /\ rpm'.usage = rpm.usage - 1]_vars

(* C15 witness: the only opener of a runtime-PM enabled device has closed
   it: both counts are back at zero *)
C15_Witness ==
    /\ last.op = "close" /\ ts.gpios /\ rpm.enabled
    /\ ts.open_count = 0 /\ rpm.usage = 0

---------------------------------------------------------------------------
(* Claims on the locking specification *)

(* C16: suspended changes only in a step of the thread that holds the mutex,
   the test of suspended that decides a transition is made by the holder,
   and a thread performs its transition in the state its test saw, so two
   concurrent callers never both perform the same transition. *)
C16_SuspendedUnderMutex ==
    /\ [](\A t \in Threads : thr[t].pc \in {"check", "body", "unlock"} => mutex = t)
    /\ [][/\ ts'.suspended # ts.suspended
               => (mutex # 0 /\ thr[mutex].pc = "body" /\ thr'[mutex].pc = "unlock")
          /\ \A t \in Threads :
               (thr[t].pc = "body" /\ thr'[t].pc = "unlock")
                   => (mutex = t /\ ts.suspended = (thr[t].fn = "wakeup"))]_vars

(* C16 witness: one thread has put the device to sleep and still holds the
   mutex while the other waits at mutex_lock to do the same *)
C16_Witness ==
    \E t \in Threads, u \in Threads :
        /\ t # u
        /\ thr[t].fn = "sleep" /\ thr[t].pc = "unlock" /\ thr[t].err = OK
        /\ ts.suspended /\ mutex = t
        /\ thr[u].fn = "sleep" /\ thr[u].pc = "lock"

---------------------------------------------------------------------------
(* Claims on the sequence specification *)

(* C18: a sleep that starts with suspended = false and meets no failure
   performs, between mutex_lock and mutex_unlock and in this order: disable
   ESD (the tick is cancelled when esd_timeout is non-zero), free the IRQ,
   drive INT low, write SCREEN_OFF (0x05) to 0x8040, set suspended = true;
   a sleep that starts with suspended = true performs none of them, changes
   no state and returns success. *)
C18_SleepSequence ==
    [][(call'.fn = "sleep" /\ TSleep)
         => IF ts.suspended
            THEN /\ trace' = << <<"mutex_lock">>, <<"mutex_unlock">> >>
                 /\ UNCHANGED <<ts, hw, esd_work, rpm>>
                 /\ call'.ret = OK
            ELSE (call'.f = NoSleepFailure)
                   => /\ trace' = << <<"mutex_lock">> >>
                                  \o (IF ts.esd_timeout # 0 THEN << <<"cancel_esd">> >> ELSE << >>)
                                  \o << IF hw.irq_held THEN <<"free_irq">>
                                                       ELSE <<"free_irq_not_held">>,
                                        <<"int_out", 0>>,
                                        <<"write", 32832, 5>>,
                                        <<"suspended", TRUE>>,
                                        <<"mutex_unlock">> >>
                      /\ ts'.suspended /\ ~hw'.irq_held /\ ~esd_work'.pending
                      /\ call'.ret = OK]_vars

(* C18 witness: a sleep without failure has cancelled the tick, freed the
   IRQ and suspended the device *)
C18_Witness ==
    /\ call.fn = "sleep" /\ call.f = NoSleepFailure /\ call.ret = OK
    /\ ts.suspended /\ ts.esd_timeout # 0
    /\ Len(trace) = 7 /\ trace[2] = <<"cancel_esd">> /\ trace[3] = <<"free_irq">>

(* C19: a wake that starts with suspended = true and meets no failure
   performs, between mutex_lock and mutex_unlock and in this order: drive
   INT high, INT sync (drive INT low, then switch INT to input), re-request
   the IRQ, re-enable ESD (0xAA to 0x8041 and the tick scheduled when
   esd_timeout is non-zero), clear suspended; a wake that starts with
   suspended = false performs none of them and changes no state. *)
C19_WakeSequence ==
    [][(call'.fn = "wakeup" /\ TWakeup)
         => IF ~ts.suspended
            THEN /\ trace' = << <<"mutex_lock">>, <<"mutex_unlock">> >>
                 /\ UNCHANGED <<ts, hw, esd_work, rpm>>
            ELSE (call'.f = NoWakeFailure /\ call'.ret = OK)
                   => /\ trace' = << <<"mutex_lock">>,
                                     <<"int_out", 1>>,
                                     <<"int_out", 0>>,
                                     <<"int_input">>,
                                     <<"request_irq", ts.irq_flags>> >>
                                  \o (IF ts.esd_timeout # 0
                                      THEN << <<"write", 32833, 170>>,
                                              <<"schedule_esd", ts.esd_timeout>> >>
                                      ELSE << >>)
                                  \o << <<"suspended", FALSE>>, <<"mutex_unlock">> >>
                      /\ ~ts'.suspended /\ hw'.irq_held /\ hw'.int_dir = "input"
                      /\ esd_work'.pending = (ts.esd_timeout # 0)]_vars

(* C19 witness: a wake without failure has re-requested the IRQ, re-enabled
   ESD and cleared suspended *)
C19_Witness ==
    /\ call.fn = "wakeup" /\ call.f = NoWakeFailure /\ call.ret = OK
    /\ ~ts.suspended /\ ts.esd_timeout # 0 /\ hw.irq_held
    /\ Len(trace) = 9 /\ trace[2] = <<"int_out", 1>> /\ trace[8] = <<"suspended", FALSE>>

(* the line transitions of the reset handshake for a slave address, and
   what each leaves in the trace when it fails *)
ResetSequence(addr) ==
    << <<"rst_out", 0>>, <<"int_out", IF addr = 20 THEN 1 ELSE 0>>, <<"rst_out", 1>>,
       <<"int_out", 0>>, <<"int_input">> >>

ResetFailure(addr) ==
    << <<"rst_out_failed", 0>>, <<"int_out_failed", IF addr = 20 THEN 1 ELSE 0>>,
       <<"rst_out_failed", 1>>, <<"int_out_failed", 0>>, <<"int_input_failed">> >>

(* C20: the reset handshake makes its line transitions in the order reset
   low, INT driven to 1 iff the slave address is 0x14 (else 0), reset high,
   INT low, INT input; when a sub-step fails the handshake makes none of the
   later ones and returns the error, and probe returns that error without
   doing anything more. *)
C20_ResetSequence ==
    call.fn = "probe"
        => IF call.f.reset = 0
           THEN /\ Len(trace) >= 5
                /\ SubSeq(trace, 1, 5) = ResetSequence(ts.addr)
                /\ hw.int_dir = "input"
           ELSE /\ trace = SubSeq(ResetSequence(ts.addr), 1, call.f.reset - 1)
                             \o << ResetFailure(ts.addr)[call.f.reset] >>
                /\ call.ret = EIO
                /\ pc.cb = "aborted"

(* C20 witness: the handshake of a device at 0x14 has failed at reset high,
   after INT was driven to 1, and probe has aborted *)
C20_Witness ==
    /\ call.fn = "probe" /\ call.f.reset = 3 /\ ts.addr = 20
    /\ pc.cb = "aborted" /\ call.ret = EIO
    /\ trace = << <<"rst_out", 0>>, <<"int_out", 1>>, <<"rst_out_failed", 1>> >>

(* where in a trace the recovery branch was entered *)
RecoveryAt(tr) == {i \in 1..Len(tr) : tr[i] = <<"esd_recovery">>}

(* the stage of the recovery a call belongs to: 1 the IRQ is freed, 2 the
   reset handshake, 3 the firmware is requested, 4 it is validated and
   sent, 5 the IRQ is requested, 6 0xAA is written to 0x8041, 7 the tick is
   scheduled; 0 for any other call *)
RecoveryStage(step) ==
    IF step[1] \in {"free_irq", "free_irq_not_held"} THEN 1
    ELSE IF step[1] \in {"rst_out", "rst_out_failed", "int_out", "int_out_failed",
                         "int_input", "int_input_failed"} THEN 2
    ELSE IF step[1] \in {"request_firmware", "request_firmware_failed"} THEN 3
    ELSE IF step[1] = "check_cfg_failed" THEN 4
    ELSE IF step[1] \in {"write", "write_failed"} /\ step[2] = 32839 THEN 4
    ELSE IF step[1] \in {"request_irq", "request_irq_busy", "request_irq_failed"} THEN 5
    ELSE IF step[1] \in {"write", "write_failed"} /\ step[2] = 32833 THEN 6
    ELSE IF step[1] = "schedule_esd" THEN 7
    ELSE 0

StageCount(tr, n) == Cardinality({j \in 1..Len(tr) : RecoveryStage(tr[j]) = n})

(* C17: in a tick that recovers, the calls of the recovery are made in this
   order: the IRQ is freed, the reset handshake runs, the firmware is
   requested and (if obtained) sent, the IRQ is requested, ESD is re-enabled
   (0xAA written to 0x8041, then the tick scheduled); without a failure all
   of them are made; the tick enters the recovery once and does not
   reschedule itself by the normal path. *)
C17_RecoverySequence ==
    (call.fn = "esd_work" /\ RecoveryAt(trace) # {})
        => \E i \in RecoveryAt(trace) :
           \E rec \in {SubSeq(trace, i + 1, Len(trace))} :
             /\ RecoveryAt(trace) = {i}
             /\ \A j \in 1..i : trace[j][1] # "schedule_esd"
             /\ \A j \in 1..Len(rec) : RecoveryStage(rec[j]) >= 1
             /\ \A j \in 1..Len(rec), k \in 1..Len(rec) :
                    j < k => RecoveryStage(rec[j]) <= RecoveryStage(rec[k])
             /\ StageCount(rec, 1) = 1 /\ StageCount(rec, 3) = 1 /\ StageCount(rec, 5) = 1
             /\ StageCount(rec, 4) = (IF call.f.fw # <<>> THEN 1 ELSE 0)
             /\ StageCount(rec, 6) <= 1 /\ StageCount(rec, 7) <= StageCount(rec, 6)
             /\ SubSeq(rec, 2, StageCount(rec, 2) + 1)
                  = (IF call.f.reset = 0 THEN ResetSequence(ts.addr)
                     ELSE SubSeq(ResetSequence(ts.addr), 1, call.f.reset - 1)
                            \o << ResetFailure(ts.addr)[call.f.reset] >>)
             /\ (/\ call.f.reset = 0 /\ call.f.fw # <<>> /\ ~call.f.cfg_write
                 /\ ~call.f.req_irq /\ ~call.f.esd_write)
                  => /\ SubSeq(rec, 7, Len(rec))
                          = << <<"request_firmware">>,
                               <<"write", 32839, call.f.fw>>,
                               <<"request_irq", ts.irq_flags>>,
                               <<"write", 32833, 170>>,
                               <<"schedule_esd", ts.esd_timeout>> >>
                     /\ hw.irq_held /\ esd_work.pending

(* C17 witness: a tick has recovered without failure: the firmware was
   sent, the IRQ is held again and the next tick is scheduled *)
C17_Witness ==
    /\ call.fn = "esd_work" /\ RecoveryAt(trace) # {}
    /\ call.f.reset = 0 /\ call.f.fw = GoodBlob /\ ~call.f.cfg_write
    /\ ~call.f.req_irq /\ ~call.f.esd_write
    /\ trace[Len(trace)] = <<"schedule_esd", ts.esd_timeout>>
    /\ hw.irq_held /\ esd_work.pending

---------------------------------------------------------------------------
(* Claims on the interrupt specification, continued *)

(* C21: for every successfully read report of n contacts the handler emits
   the n contacts in the order of the report buffer (index 0 to n-1), each
   as one slot selection followed by its five events, then exactly one
   multi-touch frame sync and one input sync, and after them issues the
   acknowledge write of 0 to 0x814E (33102); nothing of another frame is in
   between. *)
C21_FrameOrderThenAck ==
    (sink.ret # "none" /\ sink.err = OK)
        => \E n \in {sink.data[1] % 16} :
             /\ Len(sink.events) = 6 * n + 2
             /\ \A i \in 0..(n - 1) :
                  /\ sink.events[6 * i + 1] = Ev("slot", "ABS_MT_SLOT", sink.data[2 + 8 * i] % 16)
                  /\ \A k \in 2..6 : sink.events[6 * i + k].type # "slot"
             /\ sink.events[6 * n + 1] = Ev("mt_sync_frame", "", 0)
             /\ sink.events[6 * n + 2] = Ev("sync", "", 0)
             /\ sink.ret = "IRQ_HANDLED"
             /\ sink.acks = << [reg |-> 33102, val |-> 0, ok |-> TRUE] >>
                  \/ sink.acks = << [reg |-> 33102, val |-> 0, ok |-> FALSE] >>

---------------------------------------------------------------------------
(* Claims on the configuration specification, continued *)

(* C22: the capability read leaves the defaults abs_x_max = abs_y_max =
   4096, max_touch_num = 10, trigger type 1 whenever the config read fails
   or the values read have a zero x resolution, a zero y resolution or a
   zero contact count (the low nibble of the touch-number byte); in every
   other case it leaves the values read (the resolutions as 16-bit little
   endian values, exchanged when the axes are swapped, the low nibble of the
   touch-number byte, the low two bits of the trigger byte). *)
C22_DefaultsOnFailureOrZero ==
    call.fn = "read_config"
        => \E x \in {platform.dev_cfg[2] + 256 * platform.dev_cfg[3]} :
           \E y \in {platform.dev_cfg[4] + 256 * platform.dev_cfg[5]} :
           \E n \in {platform.dev_cfg[6] % 16} :
             IF ~call.read_ok \/ x = 0 \/ y = 0 \/ n = 0
             THEN /\ ts.abs_x_max = 4096 /\ ts.abs_y_max = 4096
                  /\ ts.max_touch_num = 10 /\ ts.int_trigger_type = 1
             ELSE /\ ts.abs_x_max = (IF platform.swapped_x_y THEN y ELSE x)
                  /\ ts.abs_y_max = (IF platform.swapped_x_y THEN x ELSE y)
                  /\ ts.max_touch_num = n
                  /\ ts.int_trigger_type = platform.dev_cfg[7] % 4

(* C22 witness: the read succeeded with a non-zero resolution and a zero
   contact count, and the defaults were taken *)
C22_Witness ==
    /\ call.fn = "read_config" /\ call.read_ok
    /\ platform.dev_cfg[2] + 256 * platform.dev_cfg[3] # 0
    /\ platform.dev_cfg[4] + 256 * platform.dev_cfg[5] # 0
    /\ platform.dev_cfg[6] % 16 = 0
    /\ ts.abs_x_max = 4096 /\ ts.max_touch_num = 10 /\ ts.int_trigger_type = 1

(* C24: when validation rejects the blob (too long, bad checksum or fresh
   flag not 1) send makes no write to register 0x8047 (32839) and returns
   the validation error; when validation passes it issues exactly one write
   of the whole blob to 0x8047 and returns that write's result. *)
C24_SendWritesOnlyValidBlob ==
    (call.fn = "send_cfg" /\ Len(call.cfg) >= 2)
        => IF /\ Len(call.cfg) <= 240
              /\ ByteTotal(call.cfg, 1, Len(call.cfg) - 1) % 256 = 0
              /\ call.cfg[Len(call.cfg)] = 1
           THEN IF call.read_ok
                THEN trace = << <<"write", 32839, call.cfg>> >> /\ call.ret = OK
                ELSE trace = << <<"write_failed", 32839, call.cfg>> >> /\ call.ret = EIO
           ELSE /\ \A i \in 1..Len(trace) : trace[i][1] \notin {"write", "write_failed"}
                /\ call.ret = EINVAL

(* C24 witness: a blob with a good checksum whose fresh flag is not 1 has
   been refused without a write *)
C24_Witness ==
    /\ call.fn = "send_cfg" /\ call.ret = EINVAL
    /\ Len(call.cfg) = 186
    /\ ByteTotal(call.cfg, 1, Len(call.cfg) - 1) % 256 = 0
    /\ call.cfg[Len(call.cfg)] # 1
    /\ trace = << <<"check_cfg_failed">> >>

---------------------------------------------------------------------------
(* Claims on the IRQ line *)

(* C25: the IRQ line is singly held: no handler requests the IRQ while it
   is already held and none frees it while it is not held, across the
   continuation (its failure exits included), sleep, wake (failed wakes that
   are retried included), system resume, the esd_timeout store and ESD
   recovery. *)
C25_IrqSinglyHeld == last.irq = {}

(* C26: whenever the IRQ is armed the INT line is configured as an input:
   INT is driven as an output only while the IRQ is not held, and every path
   that re-requests the IRQ (the failure paths of sleep, wake, an ESD
   recovery whose reset handshake stops early) has switched INT back to
   input first. *)
C26_IntIsInputWhileArmed == hw.irq_held => hw.int_dir = "input"

---------------------------------------------------------------------------
(* Claims on the ESD disable path *)

(* C23: when goodix_disable_esd returns, no ESD tick is pending and none is
   running, whatever esd_timeout held at the call and whatever a concurrent
   esd_timeout store or an in-flight tick did: after goodix_ts_remove (which
   always calls it), after a store that replaced a non-zero value by zero on
   a runtime-active device, and after a goodix_sleep that started with
   suspended = false. *)
C23_DisableLeavesNoTick ==
    /\ []((last.op = "remove" /\ ts.gpios) => ~EsdActive)
    /\ []((/\ last.op = "esd_timeout_store" /\ last.old # 0 /\ ts.esd_timeout = 0
           /\ pm_runtime_active(W)) => ~EsdActive)
    /\ [][(/\ last'.cb = "sleep" /\ ts.gpios /\ ~ts.suspended
           /\ (RuntimeSuspend \/ SystemSuspend)) => ~EsdActive']_vars

====
